---- MODULE Spec2Model ----
(***************************************************************************)
(* Model of the rule-driven row generation engine of the synthetic data    *)
(* generator: the dispatcher of core/data_generator.py (generate_table,    *)
(* generate_table_chunked), the rule modules' referential integrity pool   *)
(* (foreign_key, get_foreign_values), the employee entity versioning rules *)
(* (generate_end_date, generate_start_date), the parent lookup caches and  *)
(* the foreign-key branch of utils/table_generator.py.                     *)
(*                                                                         *)
(* Conventions.  Python values are records [k, s, n]: a str (k = "str"),   *)
(* a date string 'YYYY-MM-DD' held as its day offset from 2017-01-01       *)
(* (k = "date"), None and pandas' NaN.  A dict is a function whose DOMAIN  *)
(* is its key set.  A dotted key f"{table}.{column}" is the sequence of    *)
(* its dot-separated parts, so startswith(f"{key}.") is a prefix test;     *)
(* table and column names and values are taken to hold no "." themselves.  *)
(* random.choice / random.randint are nondeterministic choices.            *)
(***************************************************************************)
EXTENDS Integers, Sequences, FiniteSets, TLC

(* ------------------------------ bounds --------------------------------- *)

\* Largest number of rows requested for a table.
MaxRows == 3
\* Largest chunk size tried by generate_table_chunked.
MaxChunk == 2
\* Number of low day offsets sampled from a random date range (the top of
\* the range is always sampled as well).
DrawSpan == 1
\* CHUNK_SIZE and CHUNK_THRESHOLD of main() (both 5000 in main.py lines
\* 149-150), scaled down so that tables on both sides of the threshold are
\* generated row by row.
CHUNK_SIZE == 2
CHUNK_THRESHOLD == 2

(* --------------------------- program constants ------------------------- *)

\* min_date '2017-01-01' of random_date_between, as a day offset.
FloorDay == 0
\* max_date '2025-06-01' of random_date_between: 3073 days after the floor.
CeilingDay == 3073
\* The open-ended sentinel '4712-12-31': 984692 days after the floor.
SentinelDay == 984692
\* The reuse cap: a candidate is served while its ledger count is < 2.
ReuseCap == 2

(* ------------------------------ values --------------------------------- *)

S(s) == [k |-> "str", s |-> s, n |-> 0]
D(n) == [k |-> "date", s |-> "", n |-> n]
PyNone == [k |-> "None", s |-> "", n |-> 0]
NaN == [k |-> "NaN", s |-> "", n |-> 0]
EmptyStr == S("")

\* dict helpers: d[k] = v, del d[k], {} .
EmptyDict == << >>
Put(d, key, v) == [x \in (DOMAIN d) \cup {key} |-> IF x = key THEN v ELSE d[x]]
Del(d, keys) == [x \in (DOMAIN d) \ keys |-> d[x]]
\* defaultdict(list): a missing key reads as the empty list.
GetList(d, key) == IF key \in DOMAIN d THEN d[key] ELSE << >>

Min(a, b) == IF a < b THEN a ELSE b

\* str(value) of a candidate as pandas hands it over.
Str(v) == IF v.k = "str" THEN v ELSE S(ToString(v.n))

(* ------------------------------ schema --------------------------------- *)

Lit(s) == [lit |-> TRUE, v |-> s]
Ref(c) == [lit |-> FALSE, v |-> c]
Col(name, fn, args) == [name |-> name, fn |-> fn, args |-> args]

(* ------------------------------- state --------------------------------- *)

VARIABLES
    \* the output directory: table name -> CSV file
    files,
    \* utils/foreign_key_util.py
    _foreign_key_cache,
    \* the rule module of the domain (its module-level globals)
    domain, _pk_cache, _pk_generator, _row_generator_cache, row_num,
    person_start_dates, person_end_dates, _lookup_cache,
    \* the table being generated and how
    table_name, schema, total_rows, chunk_size, mode,
    \* main(): the rows of table_config.xlsx sorted by GEN_ORDER and the
    \* position of the loop in them (0: not in the loop of main)
    config, ti,
    \* generate_table_chunked / generate_table locals
    pc, rows_written, num_rows, row, col, current_row, data, attempts,
    \* stdout: the warnings and errors printed so far
    log,
    \* history: what each foreign_key call returned since the key's last reset
    served, lastFk,
    \* the random source: the draws made so far (recorded in run 1 of a
    \* two-run comparison, replayed in run 2), the position in them, the run
    \* (0: a single run) and the output kept from run 1
    tape, rng, phase, ref

fsVars == <<files, _foreign_key_cache>>
modVars == <<domain, _pk_cache, _pk_generator, _row_generator_cache, row_num,
             person_start_dates, person_end_dates, _lookup_cache>>
cfgVars == <<table_name, schema, total_rows, chunk_size, mode, config, ti>>
genVars == <<pc, rows_written, num_rows, row, col, current_row, data, attempts>>
histVars == <<log, served, lastFk>>
runVars == <<tape, rng, phase, ref>>
vars == <<fsVars, modVars, cfgVars, genVars, histVars, runVars>>

(* --------------------------- the random source ------------------------- *)

\* The results a random call can have: any of its outcomes, but in the
\* replayed run the recorded draw at the same position (when it is one).
Draw(outcomes) ==
    IF phase = 2 /\ rng <= Len(tape) /\ tape[rng] \in outcomes
    THEN {tape[rng]} ELSE outcomes

\* The call returned d: the position advances, run 1 records the draw.
Drawn(d) ==
    /\ tape' = IF phase = 1 THEN Append(tape, d) ELSE tape
    /\ rng' = IF phase = 0 THEN rng ELSE rng + 1
    /\ UNCHANGED <<phase, ref>>

(* --------------------------- the output directory ---------------------- *)

\* A CSV file is its lines, each a sequence of fields; the first line of a
\* file written with a header holds the column names.
NoFile == [exists |-> FALSE, lines |-> << >>]
File(lines) == [exists |-> TRUE, lines |-> lines]

Range(seq) == {seq[i] : i \in DOMAIN seq}
IndexOf(seq, x) == CHOOSE i \in DOMAIN seq : seq[i] = x /\ \A j \in 1..(i - 1) : seq[j] # x

\* DataFrame.to_csv of one cell: None and NaN are written as the empty field.
CsvCell(v) == IF v.k \in {"None", "NaN"} THEN EmptyStr ELSE v

\* pd.read_csv of one cell: an empty field is NaN.
ReadCsvCell(v) == IF v = EmptyStr THEN NaN ELSE v

\* df.columns of pd.read_csv(path): the fields of the first line.
CsvColumns(f) == {f.lines[1][j].s : j \in DOMAIN f.lines[1]}

\* df[column_name] of pd.read_csv(path): the lines after the first.
ReadCsvColumn(f, column_name) ==
    LET j == IndexOf(f.lines[1], S(column_name))
    IN  [i \in 1..(Len(f.lines) - 1) |-> ReadCsvCell(f.lines[i + 1][j])]

\* Series.dropna()
DropNaMutant(seq) == seq
DropNa(seq) == SelectSeq(seq, LAMBDA v : v.k # "NaN")

\* Series.unique(): the distinct values in order of first occurrence.
RECURSIVE Unique(_)
Unique(seq) ==
    IF seq = << >> THEN << >>
    ELSE LET init == Unique(SubSeq(seq, 1, Len(seq) - 1))
             last == seq[Len(seq)]
         IN  IF last \in Range(init) THEN init ELSE Append(init, last)

(* ----------------------- utils/foreign_key_util.py --------------------- *)

\* get_foreign_values(csv_path, column_name): the list returned, the cache
\* afterwards and whether a warning was printed.  csv_path is
\* output/<domain>/<table>.csv, so the cache key is (domain, table, column).
get_foreign_values(dom, table, column_name) ==
    LET key == <<dom, table, column_name>> IN
    IF key \in DOMAIN _foreign_key_cache
    THEN [ret |-> _foreign_key_cache[key], cache |-> _foreign_key_cache, warned |-> FALSE]
    ELSE IF ~files[table].exists
    THEN [ret |-> << >>, cache |-> _foreign_key_cache, warned |-> TRUE]
    ELSE IF files[table].lines = << >>          \* read_csv raises: caught, []
    THEN [ret |-> << >>, cache |-> _foreign_key_cache, warned |-> TRUE]
    ELSE IF column_name \notin CsvColumns(files[table])
    THEN [ret |-> << >>, cache |-> _foreign_key_cache, warned |-> TRUE]
    ELSE LET vals == Unique(DropNa(ReadCsvColumn(files[table], column_name)))
         IN  [ret |-> vals, cache |-> Put(_foreign_key_cache, key, vals), warned |-> FALSE]

(* ------------------- core/data_generator.py: generate_table ------------ *)

\* The column being resolved.
ThisCol == schema[col]

\* Lines 62-70: a quoted argument is a literal, any other a back-reference
\* into the row generated so far, '' when the column is not there yet.
ResolveArgMutant(arg, cur) ==
    IF arg.lit THEN S(arg.v)
    ELSE IF data # << >> /\ arg.v \in DOMAIN data[1] THEN data[1][arg.v]
    ELSE IF arg.v \in DOMAIN cur THEN cur[arg.v] ELSE EmptyStr
ResolveArg(arg, cur) ==
    IF arg.lit THEN S(arg.v)
    ELSE IF arg.v \in DOMAIN cur THEN cur[arg.v] ELSE EmptyStr

ResolveArgs(args, cur) == [i \in DOMAIN args |-> ResolveArg(args[i], cur)]

\* Lines 87-90 and the loop heads 34-36: store the column's value, move to
\* the next column, and after the last column append the row to data and
\* start the next row with an empty current_row.
CompleteMutant(value) ==
    LET cur == Put(current_row, ThisCol.name, value)
        patched == [i \in DOMAIN data |->
                      IF i = Len(data) THEN Put(data[i], ThisCol.name, value) ELSE data[i]]
    IN
    IF col < Len(schema)
    THEN /\ current_row' = cur
         /\ col' = col + 1
         /\ pc' = "dispatch"
         /\ data' = patched
         /\ UNCHANGED row
    ELSE /\ data' = Append(data, cur)
         /\ current_row' = EmptyDict
         /\ col' = 1
         /\ row' = row + 1
         /\ pc' = IF row + 1 < num_rows THEN "dispatch" ELSE "return"
Complete(value) ==
    LET cur == Put(current_row, ThisCol.name, value) IN
    IF col < Len(schema)
    THEN /\ current_row' = cur
         /\ col' = col + 1
         /\ pc' = "dispatch"
         /\ UNCHANGED <<row, data>>
    ELSE /\ data' = Append(data, cur)
         /\ current_row' = EmptyDict
         /\ col' = 1
         /\ row' = row + 1
         /\ pc' = IF row + 1 < num_rows THEN "dispatch" ELSE "return"

\* Lines 80-82: the except branch prints the error and yields ''.
FailedMutant(kind) ==
    /\ log' = log \cup {<<kind, ThisCol.name>>}
    /\ pc' = "aborted"
    /\ UNCHANGED <<row, col, current_row, data>>
Failed(kind) ==
    /\ log' = log \cup {<<kind, ThisCol.name>>}
    /\ Complete(EmptyStr)

(* --------------- rule modules: foreign_key (the value pool) ------------ *)

\* key = f"{table_name}.{column_name}" and gen_key = f"{key}.{value}"
PoolKey(table, column_name) == <<table, column_name>>
GenKey(key, value) == Append(key, value.s)

\* k.startswith(f"{key}.")
StartsWith(k, key) == Len(k) > Len(key) /\ SubSeq(k, 1, Len(key)) = key

\* The key of the foreign_key rule being resolved.
FkArgs == ResolveArgs(ThisCol.args, current_row)
FkKey == PoolKey(FkArgs[1].s, FkArgs[2].s)
FkColumn == FkArgs[2].s

\* generate_dic(column_name, value)
generate_dic(column_name, value) == Put(EmptyDict, column_name, value)

\* count < 2
UnderCapMutant(count) == count <= ReuseCap
UnderCap(count) == count < ReuseCap

\* keys_to_reset = [k for k in _pk_generator if k.startswith(f"{key}.")]
KeysToResetMutant(key) == DOMAIN _pk_generator
KeysToReset(key) == {k \in DOMAIN _pk_generator : StartsWith(k, key)}

\* The keyword parameter a rule function declares for the index of the row
\* being generated ("" when it declares none): customer foreign_key has
\* row_num (line 320), equipment foreign_key row_nums (line 136), employee
\* foreign_key none (line 147), employee generate_start_date and
\* copy_value_from_table row_nums (lines 104, 188).
IndexParameter(dom, fn) ==
    CASE dom = "customer" /\ fn = "foreign_key" -> "row_num"
      [] dom = "equipment" /\ fn = "foreign_key" -> "row_nums"
      [] dom = "employee" /\ fn \in {"generate_start_date", "copy_value_from_table"} -> "row_nums"
      [] OTHER -> ""

\* data_generator.py lines 73-78: func(*args, row_nums=row) if 'row_nums' is
\* in the signature, else func(*args); the index the function receives.
NoIndex == [none |-> TRUE, i |-> 0]
RowIndexArg(dom, fn) ==
    IF IndexParameter(dom, fn) = "row_nums" THEN [none |-> FALSE, i |-> row] ELSE NoIndex

\* The row staged in _row_generator_cache by a served value:
\*   employee  lines 169-170 / 183-184: at the module's row_num, then row_num += 1
\*   customer  lines 342-343 / 354-355: only if row_num was passed; the
\*             dispatcher passes 'row_nums' only, so row_num is None
\*   equipment lines 156-157 / 167-168: at the row index the dispatcher passed
Stage(column_name, value) ==
    CASE domain = "employee" ->
            /\ _row_generator_cache' =
                   Put(_row_generator_cache, row_num, generate_dic(column_name, value))
            /\ row_num' = row_num + 1
      [] domain = "customer" ->
            /\ _row_generator_cache' =
                   IF RowIndexArg(domain, "foreign_key").none THEN _row_generator_cache
                   ELSE Put(_row_generator_cache, RowIndexArg(domain, "foreign_key").i,
                            generate_dic(column_name, value))
            /\ UNCHANGED row_num
      [] domain = "equipment" ->
            /\ _row_generator_cache' =
                   Put(_row_generator_cache, RowIndexArg(domain, "foreign_key").i,
                       generate_dic(column_name, value))
            /\ UNCHANGED row_num

\* History: the value a foreign_key call returned (the call of an empty
\* pool returns '' at once, see DispatchForeignKey).
Returned(key, value, reset) ==
    /\ served' = [k \in (DOMAIN served) \cup {key} |->
                    LET old == IF k \in DOMAIN served /\ ~(reset /\ k = key)
                               THEN served[k] ELSE EmptyDict
                    IN  IF k = key
                        THEN Put(old, value, IF value \in DOMAIN old THEN old[value] + 1 ELSE 1)
                        ELSE old]
    /\ lastFk' = [lastFk EXCEPT !.done = TRUE, !.ret = value, !.reset = reset]

\* foreign_key lines 147-162 (employee), 317-336 (customer), 136-149
\* (equipment), entered from the dispatcher's custom-rule branch: load the
\* candidates on the first acquisition of the key, return '' for an empty
\* pool, else start the attempts loop.
\* load_domain_rules(domain): a domain without a module under
\* generators/custom_rules has rules_module None.
HasRulesModule == domain \in {"employee", "customer", "equipment", "material", "vendor"}

\* if key not in _pk_cache: _pk_cache[key] = get_foreign_values(...)
\* (employee lines 153-155, customer 328-330, equipment 142-144)
LoadOnceMutant(key, loaded) == Put(_pk_cache, key, loaded)
LoadOnce(key, loaded) == IF key \in DOMAIN _pk_cache THEN _pk_cache ELSE Put(_pk_cache, key, loaded)

DispatchForeignKey ==
    /\ pc = "dispatch"
    /\ ThisCol.fn = "foreign_key"
    /\ HasRulesModule
    /\ LET key == FkKey
           got == get_foreign_values(domain, FkArgs[1].s, FkColumn)
           cache == LoadOnce(key, got.ret)
       IN  /\ _pk_cache' = cache
           /\ _foreign_key_cache' =
                  IF key \in DOMAIN _pk_cache THEN _foreign_key_cache ELSE got.cache
           /\ lastFk' = [key |-> key, done |-> (cache[key] = << >>), ret |-> EmptyStr,
                         reset |-> FALSE,
                         before |-> _pk_generator,
                         row |-> row, index |-> RowIndexArg(domain, "foreign_key"),
                         saturated |-> cache[key] # << >> /\ \A i \in DOMAIN cache[key] :
                             ~UnderCap(Len(GetList(_pk_generator, GenKey(key, Str(cache[key][i])))))]
           /\ IF cache[key] = << >>
              THEN /\ log' = log \cup {<<"WARNING empty pool", ThisCol.name>>}
                   /\ Complete(EmptyStr)
                   /\ UNCHANGED attempts
              ELSE /\ attempts' = 0
                   /\ pc' = "fk_loop"
                   /\ UNCHANGED <<log, row, col, current_row, data>>
    /\ UNCHANGED <<files, domain, _lookup_cache, _pk_generator, _row_generator_cache, row_num,
                   person_start_dates, person_end_dates, cfgVars,
                   rows_written, num_rows, served, runVars>>

\* One iteration of the attempts loop (employee lines 163-172, customer
\* 337-344, equipment 150-159): draw a candidate; serve it if it is under
\* the cap, else count the attempt.
FkAttempt ==
    /\ pc = "fk_loop"
    /\ attempts < Len(_pk_cache[FkKey]) * 2
    /\ \E i \in Draw(DOMAIN _pk_cache[FkKey]) :
         LET value == Str(_pk_cache[FkKey][i])
             gen_key == GenKey(FkKey, value)
             count == Len(GetList(_pk_generator, gen_key))
         IN  /\ Drawn(i)
             /\ IF UnderCap(count)
                THEN /\ _pk_generator' =
                           Put(_pk_generator, gen_key,
                               Append(GetList(_pk_generator, gen_key), value))
                     /\ Stage(FkColumn, value)
                     /\ Returned(FkKey, value, FALSE)
                     /\ Complete(value)
                     /\ UNCHANGED attempts
                ELSE /\ attempts' = attempts + 1
                     /\ UNCHANGED <<_pk_generator, _row_generator_cache, row_num, served,
                                    lastFk, pc, row, col, current_row, data>>
    /\ UNCHANGED <<fsVars, domain, _lookup_cache, _pk_cache, person_start_dates, person_end_dates,
                   cfgVars, rows_written, num_rows, log>>

\* After the loop (employee lines 174-185, customer 346-356, equipment
\* 160-169): clear the key's ledger and serve a fresh draw.
FkReset ==
    /\ pc = "fk_loop"
    /\ attempts >= Len(_pk_cache[FkKey]) * 2
    /\ \E i \in Draw(DOMAIN _pk_cache[FkKey]) :
         LET value == Str(_pk_cache[FkKey][i])
             cleared == Del(_pk_generator, KeysToReset(FkKey))
         IN  /\ Drawn(i)
             /\ _pk_generator' = Put(cleared, GenKey(FkKey, value), <<value>>)
             /\ Stage(FkColumn, value)
             /\ Returned(FkKey, value, TRUE)
             /\ Complete(value)
    /\ log' = log \cup {<<"RESET", ThisCol.name>>}
    /\ UNCHANGED <<fsVars, domain, _lookup_cache, _pk_cache, person_start_dates, person_end_dates,
                   cfgVars, rows_written, num_rows, attempts>>

(* ------ employee_rules.py: entity versioning (ENDDA / BEGDA rules) ----- *)

\* random.randint(0, days_range): the offsets tried, none when the range is
\* empty (randint raises ValueError).
RandomDays(days_range) ==
    {r \in (0..DrawSpan) \cup {days_range} : 0 <= r /\ r <= days_range}

\* random_date_between(min_date, max_date), lines 137-142: the date for
\* the offset random_days drawn from 0..(max_date - min_date).
random_date_betweenMutant(min_date, random_days) == D(min_date + random_days + 1)
random_date_between(min_date, random_days) == D(min_date + random_days)

\* _row_generator_cache[row_num-1].update(generate_dic(column_name, value));
\* a KeyError when foreign_key has staged no such row.
HasStagedRow == (row_num - 1) \in DOMAIN _row_generator_cache
UpdateStagedRow(column_name, value) ==
    Put(_row_generator_cache, row_num - 1,
        Put(_row_generator_cache[row_num - 1], column_name, value))

\* The person id the date rule was called with (its one argument).
PersonArg == ResolveArgs(ThisCol.args, current_row)[1]

\* generate_end_date(person_id), lines 83-101, called from the dispatcher's
\* custom-rule branch; an exception leaves the changes made before it.
DispatchEndDate ==
    /\ pc = "dispatch"
    /\ domain = "employee"
    /\ ThisCol.fn = "generate_end_date"
    /\ LET person_id == PersonArg IN
       IF person_id \notin DOMAIN person_start_dates
       THEN \* lines 88-92: the active (open-ended) record
            /\ person_end_dates' = Put(person_end_dates, person_id, <<D(SentinelDay)>>)
            /\ IF HasStagedRow
               THEN /\ _row_generator_cache' = UpdateStagedRow("ENDDA", D(SentinelDay))
                    /\ Complete(D(SentinelDay))
                    /\ UNCHANGED log
               ELSE /\ Failed("ERROR custom rule")
                    /\ UNCHANGED _row_generator_cache
       ELSE \* lines 95-101: an inactive record ends the day before the
            \* first start date recorded for the person
            LET date == D(person_start_dates[person_id][1].n - 1) IN
            IF person_id \notin DOMAIN person_end_dates
            THEN /\ Failed("ERROR custom rule")      \* KeyError at line 99
                 /\ UNCHANGED <<person_end_dates, _row_generator_cache>>
            ELSE /\ person_end_dates' =
                       Put(person_end_dates, person_id, Append(person_end_dates[person_id], date))
                 /\ IF HasStagedRow
                    THEN /\ _row_generator_cache' = UpdateStagedRow("ENDDA", date)
                         /\ Complete(date)
                         /\ UNCHANGED log
                    ELSE /\ Failed("ERROR custom rule")
                         /\ UNCHANGED _row_generator_cache
    /\ UNCHANGED <<fsVars, domain, _lookup_cache, _pk_cache, _pk_generator, row_num, person_start_dates,
                   cfgVars, rows_written, num_rows, attempts, served, lastFk, runVars>>

\* generate_start_date(person_id, row_nums), lines 104-121.
DispatchStartDate ==
    /\ pc = "dispatch"
    /\ domain = "employee"
    /\ ThisCol.fn = "generate_start_date"
    /\ LET person_id == PersonArg IN
       IF person_id \notin DOMAIN person_start_dates
       THEN \* lines 108-113: the active record starts between floor and ceiling
            \E r \in Draw(RandomDays(CeilingDay - FloorDay)) :
               LET start_date == random_date_between(FloorDay, r) IN
               /\ Drawn(r)
               /\ person_start_dates' = Put(person_start_dates, person_id, <<start_date>>)
               /\ IF HasStagedRow
                  THEN /\ _row_generator_cache' = UpdateStagedRow("BEGDA", start_date)
                       /\ Complete(start_date)
                       /\ UNCHANGED log
                  ELSE /\ Failed("ERROR custom rule")
                       /\ UNCHANGED _row_generator_cache
       ELSE \* lines 116-121: an inactive record starts between the floor and
            \* the second end date recorded for the person
            /\ UNCHANGED person_start_dates
            /\ IF \/ person_id \notin DOMAIN person_end_dates        \* KeyError
                  \/ Len(person_end_dates[person_id]) < 2           \* IndexError
                  \/ RandomDays(person_end_dates[person_id][2].n - FloorDay) = {}
                                                                    \* ValueError
               THEN /\ Failed("ERROR custom rule")
                    /\ UNCHANGED <<_row_generator_cache, runVars>>
               ELSE \E r \in Draw(RandomDays(person_end_dates[person_id][2].n - FloorDay)) :
                       LET start_date == random_date_between(FloorDay, r) IN
                       /\ Drawn(r)
                       /\ IF HasStagedRow
                          THEN /\ _row_generator_cache' = UpdateStagedRow("BEGDA", start_date)
                               /\ Complete(start_date)
                               /\ UNCHANGED log
                          ELSE /\ Failed("ERROR custom rule")
                               /\ UNCHANGED _row_generator_cache
    /\ UNCHANGED <<fsVars, domain, _lookup_cache, _pk_cache, _pk_generator, row_num, person_end_dates,
                   cfgVars, rows_written, num_rows, attempts, served, lastFk>>

(* ------------- the custom-rule branch: rules that fail ----------------- *)

\* The rule functions the employee and customer modules define (those
\* modelled here); getattr raises AttributeError for any other name, the
\* empty name of a rule text starting with '(' included.
RuleFunctions ==
    { "foreign_key", "generate_end_date", "generate_start_date",
      "copy_value_from_table", "copy_value_from_column", "lookup_parent_value",
      "get_company_code", "get_tax_classification" }

\* An argument token that opens a quote and does not close it: eval(arg)
\* raises SyntaxError.
Unterminated == "'abc"
EvalRaises(args) == \E i \in DOMAIN args : args[i].lit /\ args[i].v = Unterminated

\* func(*args) raises TypeError when the argument count does not fit.
Arity(fn) ==
    CASE fn \in {"get_company_code", "get_tax_classification"} -> 0
      [] fn = "copy_value_from_column" -> 1
      [] OTHER -> -1
CallRaises(fn, args) == Arity(fn) >= 0 /\ Len(args) # Arity(fn)

\* The try block of the custom-rule branch raises before the rule function
\* runs (data_generator.py lines 59-78, table_generator.py lines 88-100).
RaisesBeforeRule(c) ==
    \/ EvalRaises(c.args)
    \/ c.fn \notin RuleFunctions
    \/ CallRaises(c.fn, c.args)

\* data_generator.py lines 80-82: the except branch.
DispatchRaises ==
    /\ pc = "dispatch"
    /\ mode # "table_generator"
    /\ HasRulesModule
    /\ ThisCol.fn # "nan"
    /\ RaisesBeforeRule(ThisCol)
    /\ Failed("ERROR custom rule")
    /\ UNCHANGED <<fsVars, modVars, cfgVars, rows_written, num_rows, attempts,
                   served, lastFk, runVars>>

(* ------------------ rule modules: copies and choices ------------------- *)

\* random.choice over a fixed list: employee get_company_code (lines
\* 242-244) and customer get_tax_classification (lines 310-312).
ChoiceList(fn) ==
    CASE fn = "get_company_code" -> <<"1710", "2910">>
      [] fn = "get_tax_classification" -> <<"0", "1">>

ChoiceModule(fn) ==
    CASE fn = "get_company_code" -> "employee"
      [] fn = "get_tax_classification" -> "customer"

DispatchChoice ==
    /\ pc = "dispatch"
    /\ ThisCol.fn \in {"get_company_code", "get_tax_classification"}
    /\ ~RaisesBeforeRule(ThisCol)
    /\ domain = ChoiceModule(ThisCol.fn)
    /\ \E i \in Draw(DOMAIN ChoiceList(ThisCol.fn)) :
          /\ Drawn(i)
          /\ Complete(S(ChoiceList(ThisCol.fn)[i]))
    /\ UNCHANGED <<fsVars, modVars, cfgVars, rows_written, num_rows, attempts, histVars>>

\* copy_value_from_column(source_value): employee lines 204-207, customer
\* lines 420-422; the dispatcher resolved the argument (lines 62-70).
copy_value_from_column(source_value) == source_value

DispatchCopyColumn ==
    /\ pc = "dispatch"
    /\ ThisCol.fn = "copy_value_from_column"
    /\ ~RaisesBeforeRule(ThisCol)
    /\ domain \in {"employee", "customer"}
    /\ Complete(copy_value_from_column(ResolveArgs(ThisCol.args, current_row)[1]))
    /\ UNCHANGED <<fsVars, modVars, cfgVars, rows_written, num_rows, attempts,
                   histVars, runVars>>

\* copy_value_from_table(column_name, row_nums), employee lines 188-201: the
\* dispatcher passes the index of the row within this generate_table call
\* (lines 74-76); a KeyError is caught in the function and gives None.
copy_value_from_table(column_name, row_nums) ==
    IF row_nums \in DOMAIN _row_generator_cache
       /\ column_name \in DOMAIN _row_generator_cache[row_nums]
    THEN _row_generator_cache[row_nums][column_name]
    ELSE PyNone

DispatchCopyTable ==
    /\ pc = "dispatch"
    /\ ThisCol.fn = "copy_value_from_table"
    /\ domain = "employee"
    /\ LET value == copy_value_from_table(ResolveArgs(ThisCol.args, current_row)[1].s, row) IN
          /\ log' = IF value = PyNone
                    THEN log \cup {<<"WARNING not found in row", ThisCol.name>>} ELSE log
          /\ Complete(value)
    /\ UNCHANGED <<fsVars, modVars, cfgVars, rows_written, num_rows, attempts,
                   served, lastFk, runVars>>

(* ------------- employee_rules.py: the parent lookup cache -------------- *)

\* The rows of pd.read_csv(path) as df.iterrows() yields them: column -> cell.
DfRows(f) ==
    [i \in 1..(Len(f.lines) - 1) |->
        [c \in CsvColumns(f) |-> ReadCsvColumn(f, c)[i]]]

\* {row[fk_column_name]: row for _, row in df.iterrows()}: a dict
\* comprehension assigns the keys in iteration order, so of several rows
\* with one key the dict keeps the last.
DictOfRows(rows, fk_column_name) ==
    LET keys == {rows[i][fk_column_name] : i \in DOMAIN rows}
        Last(k) == CHOOSE i \in DOMAIN rows :
                      /\ rows[i][fk_column_name] = k
                      /\ \A j \in DOMAIN rows : rows[j][fk_column_name] = k => j <= i
    IN  [k \in keys |-> rows[Last(k)]]

\* get_lookup_map(table_name, fk_column_name, domain), lines 210-224: the
\* map returned and the cache afterwards; raises when read_csv does (an
\* empty file) or when a row has no such column.
LookupKey(table, fk_column_name) == <<domain, table, fk_column_name>>

get_lookup_map(table, fk_column_name) ==
    LET key == LookupKey(table, fk_column_name)
        f == files[table]
    IN  IF key \in DOMAIN _lookup_cache
        THEN [raised |-> FALSE, ret |-> _lookup_cache[key], cache |-> _lookup_cache]
        ELSE IF ~f.exists
        THEN [raised |-> FALSE, ret |-> EmptyDict, cache |-> Put(_lookup_cache, key, EmptyDict)]
        ELSE IF f.lines = << >>
        THEN [raised |-> TRUE, ret |-> EmptyDict, cache |-> _lookup_cache]
        ELSE IF Len(f.lines) > 1 /\ fk_column_name \notin CsvColumns(f)
        THEN [raised |-> TRUE, ret |-> EmptyDict, cache |-> _lookup_cache]
        ELSE LET map == DictOfRows(DfRows(f), fk_column_name)
             IN  [raised |-> FALSE, ret |-> map, cache |-> Put(_lookup_cache, key, map)]

\* lookup_parent_value(table_name, fk_column_name, look_up_column,
\* source_value), lines 227-236.
lookup_parent_value(lookup_map, look_up_column, source_value) ==
    IF source_value \in DOMAIN lookup_map
       /\ look_up_column \in DOMAIN lookup_map[source_value]
    THEN lookup_map[source_value][look_up_column]
    ELSE PyNone

DispatchLookup ==
    /\ pc = "dispatch"
    /\ ThisCol.fn = "lookup_parent_value"
    /\ domain = "employee"
    /\ LET args == ResolveArgs(ThisCol.args, current_row)
           got == get_lookup_map(args[1].s, args[2].s)
       IN  /\ _lookup_cache' = got.cache
           /\ IF got.raised
              THEN Failed("ERROR custom rule")
              ELSE /\ Complete(lookup_parent_value(got.ret, args[3].s, args[4]))
                   /\ log' = IF files[args[1].s].exists THEN log
                             ELSE log \cup {<<"WARNING not found", ThisCol.name>>}
    /\ UNCHANGED <<fsVars, domain, _pk_cache, _pk_generator, _row_generator_cache, row_num,
                   person_start_dates, person_end_dates, cfgVars, rows_written,
                   num_rows, attempts, served, lastFk, runVars>>

\* customer_rules.py lines 384-395: the key is looked up as int(fk_value).
\* int() of the numerals used as ids here; any other text raises ValueError.
Numeral == [t \in {"1", "2"} |-> IF t = "1" THEN 1 ELSE 2]
IntRaises(v) == v.k # "str" \/ v.s \notin DOMAIN Numeral

\* lookup_map.get(int(fk_value)): the key read from a numeric CSV column
\* that equals the number, if any.
IntKeys(lookup_map, n) ==
    {k \in DOMAIN lookup_map : k.k = "str" /\ k.s \in DOMAIN Numeral /\ Numeral[k.s] = n}

DispatchLookupCustomer ==
    /\ pc = "dispatch"
    /\ ThisCol.fn = "lookup_parent_value"
    /\ domain = "customer"
    /\ LET args == ResolveArgs(ThisCol.args, current_row)
           got == get_lookup_map(args[1].s, args[2].s)
       IN  /\ _lookup_cache' = got.cache
           /\ IF got.raised \/ IntRaises(args[4])
              THEN Failed("ERROR custom rule")
              ELSE LET keys == IntKeys(got.ret, Numeral[args[4].s])
                       value == IF keys = {} THEN PyNone
                                ELSE LET hit == got.ret[CHOOSE k \in keys : TRUE]
                                     IN  IF args[3].s \in DOMAIN hit THEN hit[args[3].s]
                                         ELSE PyNone
                   IN  /\ Complete(value)
                       /\ log' = IF files[args[1].s].exists THEN log
                                 ELSE log \cup {<<"WARNING not found", ThisCol.name>>}
    /\ UNCHANGED <<fsVars, domain, _pk_cache, _pk_generator, _row_generator_cache, row_num,
                   person_start_dates, person_end_dates, cfgVars, rows_written,
                   num_rows, attempts, served, lastFk, runVars>>

(* ------------- columns without a rule and the type default ------------- *)

\* A schema row with its TYPE and LENGTH cells.
TypedCol(name, type, length, fn, args) ==
    [name |-> name, type |-> type, length |-> length, fn |-> fn, args |-> args]

\* fake.word(): two of the words Faker draws from.
Words == {"a", "word"}

RECURSIVE Pow10(_)
Pow10(n) == IF n <= 0 THEN 1 ELSE 10 * Pow10(n - 1)

\* random.randint(lo, hi), sampled at its ends.
RandInt(lo, hi) == {lo, hi}

\* get_generator(dtype, length)(), base_rules.py lines 11-34: the values
\* the generator returned can produce.
get_generator(dtype, length) ==
    IF dtype = "varchar"
    THEN {S(SubSeq(w, 1, Min(length, Len(w)))) : w \in Words}
    ELSE IF dtype = "int"
    THEN IF length > 1
         THEN {S(ToString(n)) : n \in RandInt(Pow10(length - 1), Pow10(length) - 1)}
         ELSE {S(ToString(n)) : n \in RandInt(0, 9)}
    ELSE {S("UNKNOWN")}

\* data_generator.py lines 44-45: pd.isna(rule), the value is None.
DispatchNoRule ==
    /\ pc = "dispatch"
    /\ mode # "table_generator"
    /\ ti = 0
    /\ ThisCol.fn = "nan"
    /\ Complete(PyNone)
    /\ UNCHANGED <<fsVars, modVars, cfgVars, rows_written, num_rows, attempts,
                   histVars, runVars>>

\* data_generator.py lines 84-85: the else branch, reached by a rule text
\* when the domain has no rules module.
DispatchTypeDefault ==
    /\ pc = "dispatch"
    /\ mode # "table_generator"
    /\ ThisCol.fn # "nan"
    /\ ~HasRulesModule
    /\ \E v \in Draw(get_generator(ThisCol.type, ThisCol.length)) :
          /\ Drawn(v)
          /\ Complete(v)
    /\ UNCHANGED <<fsVars, modVars, cfgVars, rows_written, num_rows, attempts, histVars>>

(* ------------- generate_table_chunked and the one-pass caller ---------- *)

\* generate_table lines 31-35: a fresh data buffer and the first row.
EnterGenerateTable(n) ==
    /\ num_rows' = n
    /\ row' = 0
    /\ col' = 1
    /\ current_row' = EmptyDict
    /\ data' = << >>
    /\ pc' = IF n > 0 THEN "dispatch" ELSE "return"

\* column_order of the table being generated: None, or the list from the
\* COLUMN_ORDER cell of its config row (main.py lines 156-159); the callers
\* of generate_table outside main pass none.
NoOrder == [none |-> TRUE, cols |-> << >>]
Order(cols) == [none |-> FALSE, cols |-> cols]
column_order == IF ti = 0 THEN NoOrder ELSE config[ti].order

\* df = df[column_order]: the columns written, and whether the selection
\* raises KeyError (a name that is no column of the table).
SchemaColumns == [j \in DOMAIN schema |-> schema[j].name]
OutColumns == IF column_order.none THEN SchemaColumns ELSE column_order.cols
OrderRaises == \E j \in DOMAIN OutColumns : OutColumns[j] \notin Range(SchemaColumns)

\* to_csv raises (the output directory or file cannot be written).
SinkRaises == ti > 0 /\ ~config[ti].sink_ok

\* The header and the rows of pd.DataFrame(data) as to_csv writes them.
HeaderLine == [j \in DOMAIN OutColumns |-> S(OutColumns[j])]
RowLine(r) == [j \in DOMAIN OutColumns |-> CsvCell(r[OutColumns[j]])]
RowLines(rows) == [i \in DOMAIN rows |-> RowLine(rows[i])]

\* df.to_csv(path, mode='a', header=flag, index=False)
ToCsvAppend(f, rows, header) ==
    File(f.lines \o (IF header THEN <<HeaderLine>> ELSE << >>) \o RowLines(rows))

\* header=(rows_written == 0)
HeaderFlagMutant(written) == TRUE
HeaderFlag(written) == written = 0

\* main.py lines 157-166: below the threshold the table is generated in one
\* generate_table call ...
OnePassStart ==
    /\ pc = "start"
    /\ mode = "onepass"
    /\ EnterGenerateTable(total_rows)
    /\ UNCHANGED <<fsVars, modVars, cfgVars, rows_written, attempts, histVars, runVars>>

\* ... and written once, header first (to_csv's default mode 'w').
WriteOnce ==
    /\ pc = "return"
    /\ mode = "onepass"
    /\ ~OrderRaises
    /\ ~SinkRaises
    /\ files' = [files EXCEPT ![table_name] = ToCsvAppend(File(<< >>), data, TRUE)]
    /\ rows_written' = Len(data)
    /\ pc' = "done"
    /\ UNCHANGED <<_foreign_key_cache, modVars, cfgVars, num_rows, row, col,
                   current_row, data, attempts, histVars, runVars>>

\* generate_table_chunked lines 111-119: stale output is removed.
ChunkedStart ==
    /\ pc = "start"
    /\ mode = "chunked"
    /\ files' = [files EXCEPT ![table_name] = NoFile]
    /\ rows_written' = 0
    /\ pc' = "while"
    /\ UNCHANGED <<_foreign_key_cache, modVars, cfgVars, num_rows, row, col,
                   current_row, data, attempts, histVars, runVars>>

\* rows_to_generate = min(chunk_size, total_rows - rows_written), line 121
RowsToGenerateMutant(written) == chunk_size
RowsToGenerate(written) == Min(chunk_size, total_rows - written)

\* A loop that makes no progress is followed only until the file holds more
\* lines than the table has rows; a loop that makes progress never gets there.
LoopCap == Len(files[table_name].lines) <= total_rows

\* Lines 120-126: the next chunk is generated by a generate_table call of
\* its own.
ChunkBegin ==
    /\ pc = "while"
    /\ rows_written < total_rows
    /\ LoopCap
    /\ EnterGenerateTable(RowsToGenerate(rows_written))
    /\ UNCHANGED <<fsVars, modVars, cfgVars, rows_written, attempts, histVars, runVars>>

\* Lines 127-131: the chunk is appended, with the header iff it is the first.
Flush ==
    /\ pc = "return"
    /\ mode = "chunked"
    /\ ~OrderRaises
    /\ ~SinkRaises
    /\ files' = [files EXCEPT ![table_name] =
                    ToCsvAppend(files[table_name], data, HeaderFlag(rows_written))]
    /\ rows_written' = rows_written + num_rows
    /\ pc' = "while"
    /\ UNCHANGED <<_foreign_key_cache, modVars, cfgVars, num_rows, row, col,
                   current_row, data, attempts, histVars, runVars>>

\* Line 120 false, line 132: the loop ends.
ChunkedDone ==
    /\ pc = "while"
    /\ rows_written >= total_rows
    /\ pc' = "done"
    /\ UNCHANGED <<fsVars, modVars, cfgVars, rows_written, num_rows, row, col,
                   current_row, data, attempts, histVars, runVars>>

(* ------------- utils/table_generator.py: generate_table ---------------- *)

\* The rule foreign_key(<table>.<column>[, <relationship>]) handled by the
\* generator itself (lines 66-85); a schema column holds its parameters as
\* <<table, column>> or <<table, column, relationship>>.
RelationshipType(params) == IF Len(params) > 2 THEN params[3].v ELSE "1:N"

\* candidates[i] for the 0-based row i
OneToOnePickMutant(candidates, i) == candidates[1]
OneToOnePick(candidates, i) == candidates[i + 1]

\* Lines 28-33 and 44-45: the row loop starts (no faker columns here).
TgStart ==
    /\ pc = "start"
    /\ mode = "table_generator"
    /\ EnterGenerateTable(total_rows)
    /\ UNCHANGED <<fsVars, modVars, cfgVars, rows_written, attempts, histVars, runVars>>

\* Lines 66-85: the foreign-key branch; every exception gives ''.
TgForeignKey ==
    /\ pc = "dispatch"
    /\ mode = "table_generator"
    /\ ThisCol.fn = "foreign_key"
    /\ LET params == ThisCol.args
           got == get_foreign_values(domain, params[1].v, params[2].v)
           candidates == got.ret
       IN  /\ _foreign_key_cache' = got.cache
           /\ IF candidates = << >>
              THEN Failed("ERROR foreign key") /\ UNCHANGED runVars
              ELSE IF RelationshipType(params) = "1:1"
              THEN IF Len(candidates) < num_rows
                   THEN Failed("ERROR foreign key") /\ UNCHANGED runVars
                   ELSE /\ Complete(OneToOnePick(candidates, row))
                        /\ UNCHANGED <<log, runVars>>
              ELSE \E i \in Draw(DOMAIN candidates) :
                      /\ Drawn(i)
                      /\ Complete(candidates[i])
                      /\ UNCHANGED log
    /\ UNCHANGED <<files, modVars, cfgVars, rows_written, num_rows, attempts,
                   served, lastFk>>

\* Lines 60-61: a column without a rule is None.
TgNoRule ==
    /\ pc = "dispatch"
    /\ mode = "table_generator"
    /\ ThisCol.fn = "nan"
    /\ Complete(PyNone)
    /\ UNCHANGED <<fsVars, modVars, cfgVars, rows_written, num_rows, attempts,
                   histVars, runVars>>

\* Lines 87-102: the custom-rule branch, its except branch taken.
TgCustomRaises ==
    /\ pc = "dispatch"
    /\ mode = "table_generator"
    /\ ThisCol.fn # "foreign_key"
    /\ ThisCol.fn # "nan"
    /\ RaisesBeforeRule(ThisCol)
    /\ Failed("ERROR custom rule")
    /\ UNCHANGED <<fsVars, modVars, cfgVars, rows_written, num_rows, attempts,
                   served, lastFk, runVars>>

(* ------------------------------ main.py -------------------------------- *)

\* A row of config/table_config.xlsx, and what to_csv will meet.
ConfigRow(table, gen_order, rows, order, sink_ok) ==
    [table |-> table, gen_order |-> gen_order, rows |-> rows, order |-> order,
     sink_ok |-> sink_ok]

\* config_df.sort_values(by="GEN_ORDER"), line 146
SortByGenOrderMutant(rows) == rows
RECURSIVE SortByGenOrder(_)
SortByGenOrder(rows) ==
    IF rows = << >> THEN << >>
    ELSE LET i == CHOOSE i \in DOMAIN rows :
                     \A j \in DOMAIN rows :
                        \/ rows[i].gen_order < rows[j].gen_order
                        \/ rows[i].gen_order = rows[j].gen_order /\ i <= j
             rest == [k \in 1..(Len(rows) - 1) |-> IF k < i THEN rows[k] ELSE rows[k + 1]]
         IN  <<rows[i]>> \o SortByGenOrder(rest)

\* df_schema[df_schema["TABLE_NAME"] == table_name]: the schema workbook of
\* the domain has a table of ids and a table referring to it.
TableSchema(table) ==
    IF table = "T1"
    THEN << Col("ID", "get_company_code", << >>) >>
    ELSE << Col("REF", "foreign_key", <<Lit("T1"), Lit("ID")>>),
            Col("NOTE", "nan", << >>) >>

\* if num_rows > CHUNK_THRESHOLD ... else ..., lines 167-172
ModeOfMutant(n) == "onepass"
ModeOf(n) == IF n > CHUNK_THRESHOLD THEN "chunked" ELSE "onepass"

\* Lines 152-167 and 172: the loop of main takes the next table of the
\* config and selects how it is generated.
MainLoop ==
    /\ pc \in {"main", "done"}
    /\ ti < Len(config)
    /\ ti' = ti + 1
    /\ table_name' = config[ti + 1].table
    /\ schema' = TableSchema(config[ti + 1].table)
    /\ total_rows' = config[ti + 1].rows
    /\ chunk_size' = CHUNK_SIZE
    /\ mode' = ModeOf(config[ti + 1].rows)
    /\ pc' = "start"
    /\ rows_written' = 0
    /\ num_rows' = 0
    /\ row' = 0
    /\ col' = 1
    /\ current_row' = EmptyDict
    /\ data' = << >>
    /\ UNCHANGED <<fsVars, modVars, config, attempts, histVars, runVars>>

\* Lines 182-183: the loop is over.
MainEnd ==
    /\ pc \in {"main", "done"}
    /\ ti = Len(config)
    /\ pc' = "exit"
    /\ UNCHANGED <<fsVars, modVars, cfgVars, rows_written, num_rows, row, col,
                   current_row, data, attempts, histVars, runVars>>

\* Lines 131-132 and 174-175: df[column_order] raises KeyError; lines 133
\* and 176-178: makedirs or to_csv raises OSError.  Nothing in main catches
\* either, so the exception leaves main.
MainRaises ==
    /\ pc = "return"
    /\ ti > 0
    /\ OrderRaises \/ SinkRaises
    /\ pc' = "crashed"
    /\ log' = log \cup {<<IF OrderRaises THEN "KeyError" ELSE "OSError", table_name>>}
    /\ UNCHANGED <<fsVars, modVars, cfgVars, rows_written, num_rows, row, col,
                   current_row, data, attempts, served, lastFk, runVars>>

\* generate_table of main.py, lines 46-47: no rule, the value is None.
MainNoRule ==
    /\ pc = "dispatch"
    /\ ti > 0
    /\ ThisCol.fn = "nan"
    /\ Complete(PyNone)
    /\ UNCHANGED <<fsVars, modVars, cfgVars, rows_written, num_rows, attempts,
                   histVars, runVars>>

\* generate_table of main.py, lines 49-60: a rule text starting with
\* foreign_key( is resolved by the generator itself.
MainForeignKey ==
    /\ pc = "dispatch"
    /\ ti > 0
    /\ ThisCol.fn = "foreign_key"
    /\ LET got == get_foreign_values(domain, ThisCol.args[1].v, ThisCol.args[2].v)
           candidates == got.ret
       IN  /\ _foreign_key_cache' = got.cache
           /\ IF candidates = << >>
              THEN Complete(EmptyStr) /\ UNCHANGED runVars
              ELSE \E i \in Draw(DOMAIN candidates) :
                      /\ Drawn(i)
                      /\ Complete(candidates[i])
    /\ UNCHANGED <<files, modVars, cfgVars, rows_written, num_rows, attempts,
                   histVars>>

(* ------------------------- initial states ------------------------------ *)

\* The tables of the output directory: two parents and the table generated.
Tables == {"T1", "T2", "OUT"}

\* A parent table materialized earlier: one column ID with the given cells.
ParentFile(cells) == File(<< <<S("ID")>> >> \o [i \in DOMAIN cells |-> <<cells[i]>>])

\* The module-level state of a freshly imported rule module.
InitModule ==
    /\ _foreign_key_cache = EmptyDict
    /\ _pk_cache = EmptyDict
    /\ _pk_generator = EmptyDict
    /\ _row_generator_cache = EmptyDict
    /\ row_num = 0
    /\ person_start_dates = EmptyDict
    /\ person_end_dates = EmptyDict
    /\ _lookup_cache = EmptyDict

InitGen ==
    /\ config = << >>
    /\ ti = 0
    /\ pc = "start"
    /\ rows_written = 0
    /\ num_rows = 0
    /\ row = 0
    /\ col = 1
    /\ current_row = EmptyDict
    /\ data = << >>
    /\ attempts = 0
    /\ log = {}
    /\ served = EmptyDict
    /\ lastFk = [key |-> << >>, done |-> FALSE, ret |-> EmptyStr, reset |-> FALSE,
                 before |-> EmptyDict, saturated |-> FALSE,
                 row |-> 0, index |-> NoIndex]
    /\ tape = << >>
    /\ rng = 1
    /\ ref = NoFile

\* A single run of the program.
SingleRun == phase = 0

(* ---------------------- the pool specification ------------------------- *)

PoolSchemas ==
    { << Col("A", "foreign_key", <<Lit("T1"), Lit("ID")>>),
         Col("B", "foreign_key", <<Lit("T1"), Lit("ID")>>) >>,
      << Col("A", "foreign_key", <<Lit("T1"), Lit("ID")>>),
         Col("B", "foreign_key", <<Lit("T2"), Lit("ID")>>) >> }

PoolParents ==
    { ParentFile(<<S("p1")>>),
      ParentFile(<<S("p1"), EmptyStr, S("p2"), S("p1")>>) }

InitPool ==
    /\ InitModule
    /\ InitGen
    /\ SingleRun
    /\ domain \in {"employee", "customer", "equipment"}
    /\ table_name = "OUT"
    /\ schema \in PoolSchemas
    /\ total_rows \in 1..MaxRows
    /\ chunk_size = MaxChunk
    /\ mode \in {"onepass", "chunked"}
    /\ \E f1 \in PoolParents, f2 \in PoolParents :
          files = [t \in Tables |-> IF t = "T1" THEN f1 ELSE IF t = "T2" THEN f2 ELSE NoFile]

NextPool ==
    \/ OnePassStart \/ WriteOnce
    \/ ChunkedStart \/ ChunkBegin \/ Flush \/ ChunkedDone
    \/ DispatchForeignKey \/ FkAttempt \/ FkReset

SpecPool == InitPool /\ [][NextPool]_vars

(* C1. Reuse cap: in every reachable state the usage ledger holds at most 2
   entries for any value, and no value has been returned by foreign_key more
   than 2 times since the last reset of its pool key (or since the start). *)
C1_ReuseCap ==
    /\ \A g \in DOMAIN _pk_generator : Len(_pk_generator[g]) <= 2
    /\ \A k \in DOMAIN served : \A v \in DOMAIN served[k] : served[k][v] <= 2

\* A value has been served twice, and a reset has been followed by new serves.
C1_Witness ==
    /\ lastFk.done
    /\ \E k \in DOMAIN served : \E v \in DOMAIN served[k] :
          /\ served[k][v] = 2
          /\ Len(_pk_generator[GenKey(k, v)]) = 2
    /\ \E c \in log : c[1] = "RESET"

\* The candidates of a pool key, as the strings foreign_key returns.
Candidates(key) == {Str(_pk_cache[key][i]) : i \in DOMAIN _pk_cache[key]}

(* C2. Pool reset liveness: a foreign_key call that starts with every
   candidate of a non-empty pool at the cap cannot get stuck (its attempts
   stay within 2 * pool size and a further step is always enabled), and when
   it has returned, the value is a candidate, the key's ledger holds exactly
   that value once, and the ledger entries of all other keys are as they
   were when the call started. *)
C2_ResetLiveness ==
    /\ (pc = "fk_loop" /\ lastFk.saturated) =>
          /\ attempts <= 2 * Len(_pk_cache[lastFk.key])
          /\ (ENABLED FkAttempt) \/ (ENABLED FkReset)
    /\ (lastFk.done /\ lastFk.saturated) =>
          /\ lastFk.reset
          /\ lastFk.ret \in Candidates(lastFk.key)
          /\ {g \in DOMAIN _pk_generator : StartsWith(g, lastFk.key)}
                = {GenKey(lastFk.key, lastFk.ret)}
          /\ _pk_generator[GenKey(lastFk.key, lastFk.ret)] = <<lastFk.ret>>
          /\ \A g \in (DOMAIN _pk_generator) \cup (DOMAIN lastFk.before) :
                ~StartsWith(g, lastFk.key) =>
                   /\ g \in DOMAIN _pk_generator
                   /\ g \in DOMAIN lastFk.before
                   /\ _pk_generator[g] = lastFk.before[g]

\* A saturated call has returned while another key's ledger is in use.
C2_Witness ==
    /\ lastFk.done
    /\ lastFk.saturated
    /\ \E g \in DOMAIN _pk_generator : ~StartsWith(g, lastFk.key)

\* The foreign-key columns of the schema and the table each one names.
FkColumns == {j \in DOMAIN schema : schema[j].fn = "foreign_key"}

\* The string forms of the non-empty cells of column ID of a parent table.
MaterializedIds(table) ==
    IF ~files[table].exists THEN {}
    ELSE {Str(files[table].lines[i][1]) : i \in 2..Len(files[table].lines)} \ {EmptyStr}

\* v is a value a foreign key into the table may hold.
FromParent(v, table) == v = EmptyStr \/ v \in MaterializedIds(table)

(* C17. Referential integrity: every value a foreign_key call returned, and
   every foreign-key cell of the rows generated, is the empty string or the
   string form of a non-empty cell of the parent table's column, before and
   after resets of the key. *)
C17_ReferentialIntegrity ==
    /\ lastFk.done => FromParent(lastFk.ret, lastFk.key[1])
    /\ \A j \in FkColumns :
          /\ \A r \in Range(data) : FromParent(r[schema[j].name], schema[j].args[1].v)
          /\ schema[j].name \in DOMAIN current_row =>
                FromParent(current_row[schema[j].name], schema[j].args[1].v)

\* A value was served by a reset from a parent that also has an empty cell.
C17_Witness ==
    /\ lastFk.done
    /\ lastFk.reset
    /\ lastFk.ret # EmptyStr
    /\ \E i \in 2..Len(files[lastFk.key[1]].lines) : files[lastFk.key[1]].lines[i][1] = EmptyStr

(* C22. Row-index supply: a foreign_key function that declares a parameter
   for the current row index is called with the index of the row being
   generated, and one that declares none is called without an index. *)
C22_RowIndexSupply ==
    lastFk.key # << >> =>
       IF IndexParameter(domain, "foreign_key") = ""
       THEN lastFk.index = NoIndex
       ELSE lastFk.index = [none |-> FALSE, i |-> lastFk.row]

(* C19. Reset only when saturated: whenever a foreign_key call cleared the
   ledger of its key, every candidate of the key had been served 2 times
   since the last reset when the call began. *)
C19_ResetOnlySaturated ==
    (lastFk.done /\ lastFk.reset) => lastFk.saturated

(* -------------------- the entity versioning specification -------------- *)

PersonKey == Col("PERNR", "foreign_key", <<Lit("T1"), Lit("ID")>>)
EndCol == Col("ENDDA", "generate_end_date", <<Ref("PERNR")>>)
BeginCol == Col("BEGDA", "generate_start_date", <<Ref("PERNR")>>)

\* Source tables without candidates: no file, an empty file, a header only,
\* only empty cells, another column.
EmptySources ==
    { NoFile, File(<< >>), ParentFile(<< >>), ParentFile(<<EmptyStr, EmptyStr>>),
      File(<< <<S("NAME")>>, <<S("p1")>> >>) }

\* The two schema orders of the date columns.
DateSchemas == { <<PersonKey, EndCol, BeginCol>>, <<PersonKey, BeginCol, EndCol>> }

InitDates ==
    /\ InitModule
    /\ InitGen
    /\ SingleRun
    /\ domain = "employee"
    /\ table_name = "OUT"
    /\ schema \in DateSchemas
    /\ total_rows \in 1..MaxRows
    /\ chunk_size = MaxChunk
    /\ mode = "onepass"
    /\ \E f1 \in PoolParents \cup EmptySources :
          files = [t \in Tables |-> IF t = "T1" THEN f1 ELSE NoFile]

NextDates ==
    \/ OnePassStart \/ WriteOnce
    \/ DispatchForeignKey \/ FkAttempt \/ FkReset
    \/ DispatchEndDate \/ DispatchStartDate

SpecDates == InitDates /\ [][NextDates]_vars

\* The rows generated so far in which person id p appears, in generation order.
Sightings(p) == SelectSeq(data, LAMBDA r : r["PERNR"] = p)
PersonIds == {data[i]["PERNR"] : i \in DOMAIN data} \ {EmptyStr}
IsDate(v) == v.k = "date"

\* The first row of a table holds the first sighting of its person id.
FirstRowDates == data[1]["ENDDA"] = D(SentinelDay) /\ IsDate(data[1]["BEGDA"])

(* C3. Entity versioning invariant: for every person id, the start dates of
   its successive sightings are strictly decreasing, and no two of its
   [start, end) intervals overlap (sightings whose two dates were both
   generated). *)
C3_Versioning ==
    \A p \in PersonIds :
       LET sg == Sightings(p) IN
       \A i, j \in DOMAIN sg :
          (i < j /\ IsDate(sg[i]["BEGDA"]) /\ IsDate(sg[j]["BEGDA"])
                 /\ IsDate(sg[i]["ENDDA"]) /\ IsDate(sg[j]["ENDDA"])) =>
             /\ sg[j]["BEGDA"].n < sg[i]["BEGDA"].n
             /\ \/ sg[j]["ENDDA"].n <= sg[i]["BEGDA"].n
                \/ sg[i]["ENDDA"].n <= sg[j]["BEGDA"].n

(* C4. First sighting: in the first row in which a person id appears the end
   date is the sentinel 4712-12-31 and the start date lies between the floor
   and the ceiling, and both are the first entries of the id's entity state,
   whichever date column comes first in the schema. *)
C4_FirstSighting ==
    \A p \in PersonIds :
       LET first == Sightings(p)[1] IN
          /\ first["ENDDA"] = D(SentinelDay)
          /\ IsDate(first["BEGDA"])
          /\ FloorDay <= first["BEGDA"].n /\ first["BEGDA"].n <= CeilingDay
          /\ p \in DOMAIN person_end_dates /\ person_end_dates[p][1] = D(SentinelDay)
          /\ p \in DOMAIN person_start_dates /\ person_start_dates[p][1] = first["BEGDA"]

(* C20. Subsequent sighting: in the n-th sighting (n >= 2) of a person id
   the end date is one day before the start date of the (n-1)-th sighting
   and the start date lies between the floor and that end date (sightings
   whose dates were generated). *)
C20_SubsequentSighting ==
    \A p \in PersonIds :
       LET sg == Sightings(p) IN
       \A n \in DOMAIN sg :
          (n >= 2 /\ IsDate(sg[n]["ENDDA"]) /\ IsDate(sg[n]["BEGDA"])
                  /\ IsDate(sg[n - 1]["BEGDA"])) =>
             /\ sg[n]["ENDDA"].n = sg[n - 1]["BEGDA"].n - 1
             /\ FloorDay <= sg[n]["BEGDA"].n
             /\ sg[n]["BEGDA"].n <= sg[n]["ENDDA"].n

(* C21. Entity history growth: between rows, every person id sighted k times
   has an entity state whose start-date history and end-date history both
   hold k entries, the dates of its sightings in sighting order (schema
   order PERNR, ENDDA, BEGDA; ids whose date rules all returned a date). *)
C21_HistoryGrowth ==
    (schema = <<PersonKey, EndCol, BeginCol>> /\ current_row = EmptyDict) =>
       \A p \in PersonIds :
          LET sg == Sightings(p) IN
          (\A i \in DOMAIN sg : IsDate(sg[i]["ENDDA"]) /\ IsDate(sg[i]["BEGDA"])) =>
          /\ p \in DOMAIN person_start_dates
          /\ p \in DOMAIN person_end_dates
          /\ Len(person_end_dates[p]) = Len(sg)
          /\ Len(person_start_dates[p]) = Len(sg)
          /\ \A i \in DOMAIN sg :
                /\ person_end_dates[p][i] = sg[i]["ENDDA"]
                /\ person_start_dates[p][i] = sg[i]["BEGDA"]

(* C27. Start-date availability: in every sighting of a person id after
   the first, generate_start_date returns a date and prints no error,
   whatever start date the first sighting drew (schema order PERNR, ENDDA,
   BEGDA). *)
C27_StartDateAvailable ==
    schema = <<PersonKey, EndCol, BeginCol>> =>
       \A p \in PersonIds :
          LET sg == Sightings(p) IN
          \A n \in DOMAIN sg : n >= 2 => IsDate(sg[n]["BEGDA"])

(* C28. Record validity: in every generated record in which both date rules
   returned a date, the start date is not later than the end date, in
   either schema order of the date columns. *)
C28_RecordValidity ==
    \A r \in Range(data) :
       (IsDate(r["BEGDA"]) /\ IsDate(r["ENDDA"])) => r["BEGDA"].n <= r["ENDDA"].n

\* Three records of one person with both dates each, the second one
\* starting on the day it ends.
C28_Witness ==
    /\ Len(data) = 3
    /\ \A i \in DOMAIN data :
          /\ data[i]["PERNR"] = data[1]["PERNR"]
          /\ IsDate(data[i]["BEGDA"])
          /\ IsDate(data[i]["ENDDA"])
    /\ data[2]["BEGDA"] = data[2]["ENDDA"]

\* The value the dispatcher stored last: that of the column before the
\* current one, or of the last column of the last completed row.
LastStored ==
    IF current_row = EmptyDict
    THEN data[Len(data)][schema[Len(schema)].name]
    ELSE current_row[schema[col - 1].name]

(* C29. State unchanged on rule failure: a call of generate_end_date or
   generate_start_date that fails, so that the dispatcher stores the empty
   string for its column, leaves the entity state (the start-date and
   end-date histories) and the pool's usage ledger as they were before the
   call. *)
C29_FailureKeepsState ==
    [][(/\ pc = "dispatch"
        /\ ThisCol.fn \in {"generate_end_date", "generate_start_date"}
        /\ LastStored' = EmptyStr)
       => UNCHANGED <<person_start_dates, person_end_dates, _pk_generator>>]_vars

(* C10. Graceful degradation: when the source table of the PERNR foreign key
   has no candidates (no file, an empty file, no such column, only empty
   cells), PERNR is the empty string in every row, its rule does not raise,
   and the date columns of the first row are generated as they are with a
   populated source: the end date is the sentinel and the start date is a
   date (schema order PERNR, ENDDA, BEGDA). *)
C10_GracefulDegradation ==
    files["T1"] \in EmptySources /\ schema = <<PersonKey, EndCol, BeginCol>> =>
       /\ \A i \in DOMAIN data : data[i]["PERNR"] = EmptyStr
       /\ <<"ERROR custom rule", "PERNR">> \notin log
       /\ data # << >> => FirstRowDates

(* ------------------------ the row specification ------------------------ *)

\* A row with a foreign key, a random choice and a copy of the choice; the
\* choice rule is the one the domain's module defines.
RowSchema(dom) ==
    << Col("P", "foreign_key", <<Lit("T1"), Lit("ID")>>),
       Col("A", IF dom = "employee" THEN "get_company_code" ELSE "get_tax_classification",
           << >>),
       Col("B", "copy_value_from_column", <<Ref("A")>>) >>

\* Output left by an earlier run of the program.
StaleOutput == File(<< <<S("OLD")>>, <<S("x")>> >>)

InitRow ==
    /\ InitModule
    /\ InitGen
    /\ SingleRun
    /\ domain \in {"employee", "customer"}
    /\ table_name = "OUT"
    /\ schema = RowSchema(domain)
    /\ total_rows \in 1..MaxRows
    /\ chunk_size \in 1..MaxChunk
    /\ mode \in {"onepass", "chunked"}
    /\ \E f1 \in {NoFile} \cup PoolParents, out \in {NoFile, StaleOutput} :
          files = [t \in Tables |-> IF t = "T1" THEN f1
                                    ELSE IF t = "T2" THEN NoFile
                                    ELSE out]

NextRow ==
    \/ OnePassStart \/ WriteOnce
    \/ ChunkedStart \/ ChunkBegin \/ Flush \/ ChunkedDone
    \/ DispatchForeignKey \/ FkAttempt \/ FkReset
    \/ DispatchChoice \/ DispatchCopyColumn

SpecRow == InitRow /\ [][NextRow]_vars

\* The rows completed in the current generate_table call.
DataRows == Range(data)

(* C5. Copy rule: column B, copied from the earlier column A by
   copy_value_from_column(A), holds in every generated row the value
   generated for A in that row; the row context is empty when a row starts
   and holds exactly the columns resolved before the current one. *)
C5_CopyRule ==
    /\ \A r \in DataRows : r["B"] = r["A"]
    /\ "B" \in DOMAIN current_row => current_row["B"] = current_row["A"]
    /\ pc \in {"dispatch", "fk_loop"} =>
          DOMAIN current_row = {schema[j].name : j \in 1..(col - 1)}

\* Two rows whose A values differ have been generated, each with its copy.
C5_Witness ==
    \E i, j \in DOMAIN data :
       /\ data[i]["A"] # data[j]["A"]
       /\ data[i]["B"] = data[i]["A"]
       /\ data[j]["B"] = data[j]["A"]

(* C7. Header placement: in a generate_table_chunked run the output file is
   removed first; once rows are written its first line is the header, no
   other line is, and it holds exactly rows_written data rows; the run ends
   with total_rows of them; every chunk after the first only appends its
   rows to the lines already written. *)
C7_HeaderPlacement ==
    /\ [](mode = "chunked" /\ pc # "start" =>
            LET out == files[table_name] IN
            /\ rows_written = 0 => out = NoFile
            /\ rows_written > 0 =>
                  /\ out.exists
                  /\ out.lines[1] = HeaderLine
                  /\ Len(out.lines) = rows_written + 1
                  /\ \A i \in 2..Len(out.lines) : out.lines[i] # HeaderLine
            /\ pc = "done" => rows_written = total_rows)
    /\ [][Flush /\ rows_written > 0 =>
             files'[table_name].lines = files[table_name].lines \o RowLines(data)]_vars

\* A chunked run of more than one chunk has completed.
C7_Witness ==
    /\ mode = "chunked"
    /\ pc = "done"
    /\ total_rows > chunk_size
    /\ Len(files[table_name].lines) = total_rows + 1

(* --------------------- the two-run specification ----------------------- *)

\* A table whose second column reads the staged row at the row index the
\* dispatcher passes, and one whose second column is a plain random choice.
EquivSchemas ==
    { << Col("PERNR", "foreign_key", <<Lit("T1"), Lit("ID")>>),
         Col("X", "copy_value_from_table", <<Lit("ID")>>) >>,
      << Col("PERNR", "foreign_key", <<Lit("T1"), Lit("ID")>>),
         Col("BUKRS", "get_company_code", << >>) >> }

\* Run 1 generates the table in one pass and records its random draws.
InitEquiv ==
    /\ InitModule
    /\ InitGen
    /\ phase = 1
    /\ domain = "employee"
    /\ table_name = "OUT"
    /\ schema \in EquivSchemas
    /\ total_rows \in 1..MaxRows
    /\ chunk_size \in 1..MaxChunk
    /\ mode = "onepass"
    /\ files = [t \in Tables |-> IF t = "T1" THEN ParentFile(<<S("p1"), S("p2")>>)
                                 ELSE NoFile]

\* Run 2: the program is started again (freshly imported modules, employee
\* lines 12-18, foreign_key_util line 6) on the same schema and row count,
\* takes the chunked path and replays the recorded draws; the output of
\* run 1 is kept for comparison.
Restart ==
    /\ phase = 1
    /\ pc = "done"
    /\ ref' = files[table_name]
    /\ phase' = 2
    /\ rng' = 1
    /\ mode' = "chunked"
    /\ _foreign_key_cache' = EmptyDict
    /\ _pk_cache' = EmptyDict
    /\ _pk_generator' = EmptyDict
    /\ _row_generator_cache' = EmptyDict
    /\ row_num' = 0
    /\ person_start_dates' = EmptyDict
    /\ person_end_dates' = EmptyDict
    /\ _lookup_cache' = EmptyDict
    /\ pc' = "start"
    /\ rows_written' = 0
    /\ num_rows' = 0
    /\ row' = 0
    /\ col' = 1
    /\ current_row' = EmptyDict
    /\ data' = << >>
    /\ attempts' = 0
    /\ log' = {}
    /\ served' = EmptyDict
    /\ lastFk' = [key |-> << >>, done |-> FALSE, ret |-> EmptyStr, reset |-> FALSE,
                  before |-> EmptyDict, saturated |-> FALSE,
                  row |-> 0, index |-> NoIndex]
    /\ UNCHANGED <<files, domain, table_name, schema, total_rows, chunk_size, config, ti, tape>>

NextEquiv ==
    \/ OnePassStart \/ WriteOnce
    \/ Restart
    \/ ChunkedStart \/ ChunkBegin \/ Flush \/ ChunkedDone
    \/ DispatchForeignKey \/ FkAttempt \/ FkReset
    \/ DispatchCopyTable \/ DispatchChoice

SpecEquiv == InitEquiv /\ [][NextEquiv]_vars

(* C6. Chunk equivalence: the file written by generate_table_chunked for N
   rows in chunks of K, replaying the random draws of a one-pass run of the
   same N rows, is the file the one-pass run wrote (header included), also
   for a rule that receives the row index and reads cross-row state. *)
C6_ChunkEquivalence ==
    (phase = 2 /\ pc = "done") => files[table_name] = ref

\* The same statement for the table without a row-index rule.
ChunkEquivalencePlain ==
    (phase = 2 /\ pc = "done" /\ schema[2].fn = "get_company_code") =>
        files[table_name] = ref

(* C26. Row-indexed cache alignment: in every generated row the column X,
   read by copy_value_from_table('ID') at the current row index, holds the
   value foreign_key staged for that row, i.e. the row's own PERNR, in the
   one-pass run and in every chunk of the chunked run. *)
C26_CacheAlignment ==
    /\ \A r \in Range(data) : "X" \in DOMAIN r => r["X"] = r["PERNR"]
    /\ "X" \in DOMAIN current_row => current_row["X"] = current_row["PERNR"]

(* ----------------------- the lookup specification ---------------------- *)

\* A parent table with the columns ID and NAME.
LookupFile(rows) == File(<< <<S("ID"), S("NAME")>> >> \o rows)

\* Parents without and with several rows of one key.
LookupParents ==
    { NoFile,
      LookupFile(<< <<S("p1"), S("a")>>, <<S("p2"), S("b")>> >>),
      LookupFile(<< <<S("p1"), S("a")>>, <<S("p1"), S("b")>> >>),
      LookupFile(<< <<S("p1"), S("a")>>, <<S("p2"), EmptyStr>>, <<S("p1"), S("c")>> >>) }

LookupSchema ==
    << Col("K", "foreign_key", <<Lit("T1"), Lit("ID")>>),
       Col("L", "lookup_parent_value", <<Lit("T1"), Lit("ID"), Lit("NAME"), Ref("K")>>) >>

InitLookup ==
    /\ InitModule
    /\ InitGen
    /\ SingleRun
    /\ domain = "employee"
    /\ table_name = "OUT"
    /\ schema = LookupSchema
    /\ total_rows \in 1..MaxRows
    /\ chunk_size = MaxChunk
    /\ mode = "onepass"
    /\ \E f1 \in LookupParents :
          files = [t \in Tables |-> IF t = "T1" THEN f1 ELSE NoFile]

NextLookup ==
    \/ OnePassStart \/ WriteOnce
    \/ DispatchForeignKey \/ FkAttempt \/ FkReset
    \/ DispatchLookup

SpecLookup == InitLookup /\ [][NextLookup]_vars

\* The NAME cell of the first line of T1 whose ID cell is k.
FirstOccurrence(k) ==
    LET lines == files["T1"].lines
        i == CHOOSE i \in 2..Len(lines) :
                /\ lines[i][1] = k
                /\ \A j \in 2..(i - 1) : lines[j][1] # k
    IN  ReadCsvCell(lines[i][2])

(* C8. Lookup first-wins: in every generated row whose key K is an ID of
   the parent table, the looked-up column L is the NAME of the first line of
   the parent with that ID, also when several lines have it. *)
C8_LookupFirstWins ==
    \A r \in DataRows :
       r["K"] # EmptyStr => r["L"] = FirstOccurrence(r["K"])

(* --------------------- the 1:1 foreign-key specification --------------- *)

OneToOneSchema ==
    << Col("F", "foreign_key", <<Lit("T1"), Lit("ID"), Lit("1:1")>>),
       Col("G", "foreign_key", <<Lit("T1"), Lit("ID")>>),
       Col("H", "nan", << >>) >>

\* Parents with 0, 1, 2 and MaxRows + 1 distinct ids, some repeated or empty.
OneToOneParents ==
    { NoFile,
      ParentFile(<<S("p1")>>),
      ParentFile(<<S("p2"), EmptyStr, S("p1"), S("p2")>>),
      ParentFile([i \in 1..(MaxRows + 1) |-> S(ToString(MaxRows + 2 - i))]) }

InitOneToOne ==
    /\ InitModule
    /\ InitGen
    /\ SingleRun
    /\ domain = "employee"
    /\ table_name = "OUT"
    /\ schema = OneToOneSchema
    /\ total_rows \in 1..MaxRows
    /\ chunk_size = MaxChunk
    /\ mode = "table_generator"
    /\ \E f1 \in OneToOneParents :
          files = [t \in Tables |-> IF t = "T1" THEN f1 ELSE NoFile]

NextOneToOne == TgStart \/ TgForeignKey \/ TgNoRule

SpecOneToOne == InitOneToOne /\ [][NextOneToOne]_vars

\* The distinct non-empty ID cells of T1 in order of first occurrence.
RECURSIVE DistinctIds(_)
DistinctIds(n) ==
    IF n < 2 THEN << >>
    ELSE LET before == DistinctIds(n - 1)
             cell == files["T1"].lines[n][1]
         IN  IF cell = EmptyStr \/ cell \in Range(before) THEN before
             ELSE Append(before, cell)
T1Ids == IF files["T1"].exists THEN DistinctIds(Len(files["T1"].lines)) ELSE << >>

(* C9. 1:1 cardinality: when the parent has at least as many distinct ids
   as rows are requested, row i (0-based) of a 1:1 foreign-key column holds
   the i-th distinct id of the parent, so the values assigned are pairwise
   distinct and in candidate order. *)
C9_OneToOne ==
    num_rows <= Len(T1Ids) =>
       /\ \A i \in DOMAIN data : data[i]["F"] = T1Ids[i]
       /\ \A i, j \in DOMAIN data : i # j => data[i]["F"] # data[j]["F"]
       /\ <<"ERROR foreign key", "F">> \notin log

\* All rows of a table with several rows have been generated from a parent
\* with enough ids, listed in an order other than sorted.
C9_Witness ==
    /\ pc = "return"
    /\ Len(data) = num_rows
    /\ num_rows >= 2
    /\ num_rows <= Len(T1Ids)
    /\ data[1]["F"] # data[2]["F"]

\* The number of rows generated so far whose column G holds v.
TimesAssigned(v) == Cardinality({i \in DOMAIN data : data[i]["G"] = v})

(* C23. Dispatcher 1:N draws: the values the generator assigns to the 1:N
   foreign-key column G follow the reuse policy of a pool: a candidate is
   assigned a third time only after a reset, that is, only after every
   candidate of the parent has been assigned 2 times. *)
C23_DispatcherReuseCap ==
    \A v \in Range(T1Ids) :
       TimesAssigned(v) > ReuseCap =>
          \A c \in Range(T1Ids) : TimesAssigned(c) >= ReuseCap

(* ---------------------- the recovery specification --------------------- *)

\* Rules that fail: an unknown function, a rule text starting with '(', an
\* argument that does not evaluate, a call with a wrong argument count, a
\* rule function that raises (no row is staged for the end date).
BadColumns ==
    << Col("U", "no_such_rule", << >>),
       Col("V", "", <<Ref("U")>>),
       Col("M", "copy_value_from_column", <<Lit(Unterminated)>>),
       Col("R", "get_company_code", <<Lit("x")>>) >>
BadNames == {BadColumns[j].name : j \in DOMAIN BadColumns}

RecoverSchema ==
    BadColumns \o
    << Col("E", "generate_end_date", <<Ref("U")>>),
       Col("A", "get_company_code", << >>),
       Col("B", "copy_value_from_column", <<Ref("A")>>) >>

TgRecoverSchema ==
    << Col("F", "foreign_key", <<Lit("T1"), Lit("ID"), Lit("1:1")>>) >> \o BadColumns
    \o << Col("H", "nan", << >>) >>

InitRecover ==
    /\ InitModule
    /\ InitGen
    /\ SingleRun
    /\ domain = "employee"
    /\ table_name = "OUT"
    /\ mode \in {"onepass", "chunked", "table_generator"}
    /\ schema = IF mode = "table_generator" THEN TgRecoverSchema ELSE RecoverSchema
    /\ total_rows \in 1..MaxRows
    /\ chunk_size \in 1..MaxChunk
    /\ \E f1 \in {NoFile, ParentFile(<<S("p1")>>)} :
          files = [t \in Tables |-> IF t = "T1" THEN f1 ELSE NoFile]

NextRecover ==
    \/ OnePassStart \/ WriteOnce
    \/ ChunkedStart \/ ChunkBegin \/ Flush \/ ChunkedDone
    \/ DispatchRaises \/ DispatchEndDate \/ DispatchChoice \/ DispatchCopyColumn
    \/ TgStart \/ TgForeignKey \/ TgNoRule \/ TgCustomRaises

SpecRecover == InitRecover /\ [][NextRecover]_vars

(* C11. Per-column recovery: a rule that fails (unknown function, malformed
   text, an argument that does not evaluate, a rule function that raises)
   gives its column the empty string and an error line; generate_table goes
   on with the next column, never stops inside a table, and returns num_rows
   rows each holding every column of the schema. *)
C11_PerColumnRecovery ==
    /\ pc \in {"start", "while", "dispatch", "return", "done"}
    /\ pc = "dispatch" => ENABLED NextRecover
    /\ pc = "return" => Len(data) = num_rows
    /\ \A r \in Range(data) :
          /\ DOMAIN r = {schema[j].name : j \in DOMAIN schema}
          /\ \A n \in BadNames : r[n] = EmptyStr
          /\ "E" \in DOMAIN r => r["E"] = EmptyStr
          /\ "B" \in DOMAIN r => r["A"] \in {S("1710"), S("2910")} /\ r["B"] = r["A"]
    /\ \A n \in BadNames :
          n \in DOMAIN current_row =>
             current_row[n] = EmptyStr /\ <<"ERROR custom rule", n>> \in log

\* A table of several rows was returned although rules failed in each row.
C11_Witness ==
    /\ pc = "return"
    /\ Len(data) >= 2
    /\ \A n \in BadNames : <<"ERROR custom rule", n>> \in log

(* ------------------------ the run specification ------------------------ *)

\* Row counts on both sides of the chunk threshold.
RowCounts == 1..(CHUNK_THRESHOLD + 1)

\* A COLUMN_ORDER that names a column the table does not have.
BadOrder == Order(<<"ZZ">>)

\* The config workbook lists T1 (GEN_ORDER 1) and T2 (GEN_ORDER 2) in
\* either order; T1 may have a column order that cannot be applied or an
\* output that cannot be written, T2 may have its columns reordered.
ConfigSheets ==
    UNION { { << ConfigRow("T1", 1, n1, o1, k1), ConfigRow("T2", 2, n2, o2, TRUE) >>,
              << ConfigRow("T2", 2, n2, o2, TRUE), ConfigRow("T1", 1, n1, o1, k1) >> } :
            n1 \in RowCounts, n2 \in RowCounts, o1 \in {NoOrder, BadOrder},
            k1 \in BOOLEAN, o2 \in {NoOrder, Order(<<"NOTE", "REF">>)} }

\* The output an earlier run left for T1.
StaleParent == ParentFile(<<S("old")>>)

InitMain ==
    /\ InitModule
    /\ SingleRun
    /\ domain = "employee"
    /\ \E sheet \in ConfigSheets : config = SortByGenOrder(sheet)
    /\ ti = 0
    /\ pc = "main"
    /\ table_name = ""
    /\ schema = << >>
    /\ total_rows = 0
    /\ chunk_size = CHUNK_SIZE
    /\ mode = "onepass"
    /\ rows_written = 0
    /\ num_rows = 0
    /\ row = 0
    /\ col = 1
    /\ current_row = EmptyDict
    /\ data = << >>
    /\ attempts = 0
    /\ log = {}
    /\ served = EmptyDict
    /\ lastFk = [key |-> << >>, done |-> FALSE, ret |-> EmptyStr, reset |-> FALSE,
                 before |-> EmptyDict, saturated |-> FALSE,
                 row |-> 0, index |-> NoIndex]
    /\ tape = << >>
    /\ rng = 1
    /\ ref = NoFile
    /\ \E old \in {NoFile, StaleParent} :
          files = [t \in Tables |-> IF t = "T1" THEN old ELSE NoFile]

NextMain ==
    \/ MainLoop \/ MainEnd \/ MainRaises
    \/ OnePassStart \/ WriteOnce
    \/ ChunkedStart \/ ChunkBegin \/ Flush \/ ChunkedDone
    \/ DispatchChoice \/ MainNoRule \/ MainForeignKey

SpecMain == InitMain /\ [][NextMain]_vars

(* C12. Table-fatal isolation: a run stops only after every table of the
   config has had its turn; a table whose column order cannot be applied or
   whose output cannot be written does not keep the later tables from being
   generated. *)
C12_TableFatalIsolation ==
    ~(ENABLED NextMain) => ti = Len(config)

\* The table at position i of the config has been written completely.
Materialized(i) ==
    LET f == files[config[i].table] IN
    /\ f.exists
    /\ Len(f.lines) = config[i].rows + 1
    /\ f.lines[1] = [j \in DOMAIN TableSchema(config[i].table) |->
                        S(TableSchema(config[i].table)[j].name)]

(* C15. Mode selection: a table with fewer rows than the chunk threshold is
   generated in one pass, a table with as many rows as the threshold or more
   is generated in chunks. *)
C15_ModeSelection ==
    (ti > 0 /\ pc # "main") =>
       /\ total_rows < CHUNK_THRESHOLD => mode = "onepass"
       /\ total_rows >= CHUNK_THRESHOLD => mode = "chunked"

(* C18. Generation order: the tables are taken in ascending GEN_ORDER, one
   at a time; while a table is generated every earlier table is completely
   written and no later table has been started (its file is absent or the
   one an earlier run left), and the candidates loaded for a foreign key
   are those of the parent's complete output of this run. *)
C18_GenerationOrder ==
    /\ \A i, j \in DOMAIN config : i < j => config[i].gen_order <= config[j].gen_order
    /\ ti > 0 => table_name = config[ti].table
    /\ pc # "crashed" => \A i \in 1..(ti - 1) : Materialized(i)
    /\ \A i \in (ti + 1)..Len(config) : files[config[i].table] \in {NoFile, StaleParent}
    /\ \A k \in DOMAIN _foreign_key_cache :
          \E i \in 1..(ti - 1) :
             /\ config[i].table = k[2]
             /\ Materialized(i)
             /\ Range(_foreign_key_cache[k]) =
                   {files[k[2]].lines[n][1] : n \in 2..Len(files[k[2]].lines)} \ {EmptyStr}
    /\ (ti > 0 /\ table_name = "T2") =>
          \A r \in Range(data) : r["REF"] \in MaterializedIds("T1")

\* The run has ended with both tables written, the first of them in chunks,
\* and the second one refers to it.
C18_Witness ==
    /\ pc = "exit"
    /\ \A i \in DOMAIN config : Materialized(i)
    /\ config[1].rows > CHUNK_THRESHOLD
    /\ \E n \in 2..Len(files["T2"].lines) : \E c \in 1..2 :
          files["T2"].lines[n][c] \in MaterializedIds("T1")

(* C13. Insufficient 1:1 candidates: when the parent has ids, but fewer
   distinct ones than rows are requested, generate_table produces no row of
   the dependent table. *)
C13_InsufficientOneToOne ==
    (0 < Len(T1Ids) /\ Len(T1Ids) < num_rows) => data = << >>

(* ---------------------- the not-found specification --------------------- *)

\* The ids of a domain's parent tables: employee ids are text, customer ids
\* are numbers.
IdA == IF domain = "customer" THEN S("1") ELSE S("p1")
IdB == IF domain = "customer" THEN S("2") ELSE S("p2")

NotFoundSchema ==
    << Col("K", "foreign_key", <<Lit("T1"), Lit("ID")>>),
       Col("L", "lookup_parent_value", <<Lit("T1"), Lit("ID"), Lit("NAME"), Ref("K")>>),
       Col("M", "lookup_parent_value", <<Lit("T2"), Lit("ID"), Lit("NAME"), Ref("K")>>) >>

InitNotFound ==
    /\ InitModule
    /\ InitGen
    /\ SingleRun
    /\ domain \in {"employee", "customer"}
    /\ table_name = "OUT"
    /\ schema = NotFoundSchema
    /\ total_rows \in 1..MaxRows
    /\ chunk_size = MaxChunk
    /\ mode = "onepass"
    /\ \E f1 \in {NoFile, LookupFile(<< <<IdA, S("a")>>, <<IdB, S("b")>> >>)},
          f2 \in {NoFile, LookupFile(<< <<IdB, S("c")>> >>)} :
          files = [t \in Tables |-> IF t = "T1" THEN f1 ELSE IF t = "T2" THEN f2 ELSE NoFile]

NextNotFound ==
    \/ OnePassStart \/ WriteOnce
    \/ DispatchForeignKey \/ FkAttempt \/ FkReset
    \/ DispatchLookup \/ DispatchLookupCustomer

SpecNotFound == InitNotFound /\ [][NextNotFound]_vars

\* The lookup of key k in the table has nothing to find.
NothingToFind(table, k) ==
    \/ ~files[table].exists
    \/ k = EmptyStr
    \/ \A n \in 2..Len(files[table].lines) : files[table].lines[n][1] # k

(* C14. Lookup not-found: a lookup whose source table is missing, whose key
   is not in the table or whose key is the empty string of a failed earlier
   column gives None and does not raise, in the employee and in the
   customer module. *)
C14_LookupNotFound ==
    /\ \A r \in Range(data) :
          /\ NothingToFind("T1", r["K"]) => r["L"] = PyNone
          /\ NothingToFind("T2", r["K"]) => r["M"] = PyNone
    /\ <<"ERROR custom rule", "L">> \notin log
    /\ <<"ERROR custom rule", "M">> \notin log

(* --------------------- the type-default specification ------------------- *)

\* Two columns without a rule and three with a rule text.
DefaultSchema ==
    << TypedCol("W", "varchar", 3, "nan", << >>),
       TypedCol("N", "int", 2, "nan", << >>),
       TypedCol("X", "varchar", 2, "get_company_code", << >>),
       TypedCol("Y", "int", 1, "no_such_rule", << >>),
       TypedCol("Z", "date", 8, "no_such_rule", << >>) >>

\* The domain has a rules module (employee) or none (other).
InitDefault ==
    /\ InitModule
    /\ InitGen
    /\ SingleRun
    /\ domain \in {"employee", "other"}
    /\ table_name = "OUT"
    /\ schema = DefaultSchema
    /\ total_rows \in 1..MaxRows
    /\ chunk_size = MaxChunk
    /\ mode = "onepass"
    /\ files = [t \in Tables |-> NoFile]

NextDefault ==
    \/ OnePassStart \/ WriteOnce
    \/ DispatchNoRule \/ DispatchTypeDefault
    \/ DispatchChoice \/ DispatchRaises

SpecDefault == InitDefault /\ [][NextDefault]_vars

\* v is a value the type default of (type, length) produces: a word of at
\* most length characters, a number of length digits.
IsTypeDefault(v, type, length) ==
    /\ v.k = "str"
    /\ type = "varchar" => v.s # "" /\ Len(v.s) <= length
    /\ type = "int" => Len(v.s) = length /\ v \in {S(ToString(n)) : n \in 0..(Pow10(length) - 1)}

(* C16. Type default: in every generated row a column without a rule holds
   a value of the type-default generator for its type and length, never
   None. *)
C16_TypeDefault ==
    \A r \in Range(data) :
       \A j \in DOMAIN schema :
          schema[j].fn = "nan" =>
             /\ r[schema[j].name] # PyNone
             /\ IsTypeDefault(r[schema[j].name], schema[j].type, schema[j].length)

(* ---------------------- the chunk loop specification -------------------- *)

ChunkSchema ==
    << TypedCol("A", "varchar", 4, "get_company_code", << >>),
       TypedCol("N", "int", 2, "nan", << >>) >>

\* generate_table_chunked called with any row count from 0 and any chunk
\* size from 0.
InitChunk ==
    /\ InitModule
    /\ InitGen
    /\ SingleRun
    /\ domain = "employee"
    /\ table_name = "OUT"
    /\ schema = ChunkSchema
    /\ total_rows \in 0..MaxRows
    /\ chunk_size \in 0..MaxChunk
    /\ mode = "chunked"
    /\ \E out \in {NoFile, StaleOutput} :
          files = [t \in Tables |-> IF t = "OUT" THEN out ELSE NoFile]

NextChunk ==
    \/ ChunkedStart \/ ChunkBegin \/ Flush \/ ChunkedDone
    \/ DispatchChoice \/ DispatchNoRule

SpecChunk == InitChunk /\ [][NextChunk]_vars

\* The loop of generate_table_chunked makes progress.  In every state:
\* rows_written stays within 0..total_rows, a chunk being generated has
\* between 1 and chunk_size rows, a step is possible until the loop has
\* ended, and then rows_written = total_rows.
ChunkState ==
    /\ pc # "start" => 0 <= rows_written /\ rows_written <= total_rows
    /\ pc \in {"dispatch", "return"} => 1 <= num_rows /\ num_rows <= chunk_size
    /\ pc = "done" => rows_written = total_rows
    /\ pc = "done" \/ ENABLED NextChunk

\* In every step: rows_written starts at 0, and a flush adds to it the size
\* of the chunk flushed, between 1 and chunk_size rows.
ChunkStep ==
    /\ ChunkedStart => rows_written' = 0
    /\ Flush => /\ rows_written' = rows_written + Len(data)
                /\ 1 <= Len(data) /\ Len(data) <= chunk_size

(* C24. Chunk loop progress, as claimed: for every total_rows >= 0 and every
   chunk_size the loop makes progress and ends with rows_written =
   total_rows. *)
C24_ChunkProgressAnySize == []ChunkState /\ [][ChunkStep]_vars

(* C24, amended. Chunk loop progress: for every total_rows >= 0 and every
   chunk_size >= 1 the loop makes progress and ends with rows_written =
   total_rows. *)
C24_ChunkProgress ==
    [](chunk_size >= 1 => ChunkState) /\ [][chunk_size >= 1 => ChunkStep]_vars

\* A run whose last chunk is shorter than chunk_size has ended.
C24_Witness ==
    /\ pc = "done"
    /\ chunk_size >= 2
    /\ total_rows > chunk_size
    /\ rows_written = total_rows
    /\ Len(data) < chunk_size

(* ---------------------- the load-once specification --------------------- *)

\* A table whose foreign key refers to a parent, and one whose foreign key
\* refers to the table itself, which the chunked writer materializes while
\* the table is still being generated.
OnceSchemas ==
    { << Col("R", "foreign_key", <<Lit("T1"), Lit("ID")>>) >>,
      << Col("ID", "get_company_code", << >>),
         Col("R", "foreign_key", <<Lit("OUT"), Lit("ID")>>) >> }

OnceParents == {NoFile, ParentFile(<< >>), ParentFile(<<S("p1")>>), ParentFile(<<S("p2"), S("p3")>>)}

InitOnce ==
    /\ InitModule
    /\ InitGen
    /\ SingleRun
    /\ domain = "employee"
    /\ table_name = "OUT"
    /\ schema \in OnceSchemas
    /\ total_rows \in 1..MaxRows
    /\ chunk_size = 1
    /\ mode = "chunked"
    /\ \E f1 \in OnceParents :
          files = [t \in Tables |-> IF t = "T1" THEN f1 ELSE NoFile]

\* The parent table is written anew while the run goes on (it is generated
\* later, or again, outside this generate_table_chunked call).
SourceRewritten ==
    /\ pc = "while"
    /\ \E f1 \in OnceParents :
          /\ f1 # files["T1"]
          /\ files' = [files EXCEPT !["T1"] = f1]
    /\ UNCHANGED <<_foreign_key_cache, modVars, cfgVars, genVars, histVars, runVars>>

NextOnce ==
    \/ ChunkedStart \/ ChunkBegin \/ Flush \/ ChunkedDone
    \/ DispatchForeignKey \/ FkAttempt \/ FkReset \/ DispatchChoice
    \/ SourceRewritten

SpecOnce == InitOnce /\ [][NextOnce]_vars

(* C25. Pool load-once: the candidates of a pool key, once loaded, are the
   same in every later state whatever is written to the source table; a
   first acquisition loads what the source holds then; every value served
   is a candidate of the loaded set, and the empty string when the set is
   empty, also when the source has candidates by now. *)
C25_LoadOnce ==
    /\ [](lastFk.done =>
            /\ lastFk.key \in DOMAIN _pk_cache
            /\ IF _pk_cache[lastFk.key] = << >> THEN lastFk.ret = EmptyStr
               ELSE lastFk.ret \in Candidates(lastFk.key))
    /\ [][\A k \in DOMAIN _pk_cache :
             k \in DOMAIN _pk_cache' /\ _pk_cache'[k] = _pk_cache[k]]_vars
    /\ [][(DispatchForeignKey /\ FkKey \notin DOMAIN _pk_cache) =>
             Range(_pk_cache'[FkKey]) = MaterializedIds(FkKey[1])]_vars

\* The empty string was served for a key loaded when its source had no
\* candidates, although the source holds ids by now.
C25_Witness ==
    /\ lastFk.done
    /\ lastFk.ret = EmptyStr
    /\ _pk_cache[lastFk.key] = << >>
    /\ MaterializedIds(lastFk.key[1]) # {}
    /\ rows_written >= 1

(* -------------------- the staging specification ------------------------ *)

\* The entity versioning table generated in one pass or in chunks; one row
\* more than MaxRows so that a second chunk of two rows follows a flush.
InitStaging ==
    /\ InitModule
    /\ InitGen
    /\ SingleRun
    /\ domain = "employee"
    /\ table_name = "OUT"
    /\ schema = <<PersonKey, EndCol, BeginCol>>
    /\ total_rows \in 1..(MaxRows + 1)
    /\ chunk_size \in 1..MaxChunk
    /\ mode \in {"onepass", "chunked"}
    /\ \E f1 \in PoolParents :
          files = [t \in Tables |-> IF t = "T1" THEN f1 ELSE NoFile]

NextStaging ==
    \/ OnePassStart \/ WriteOnce
    \/ ChunkedStart \/ ChunkBegin \/ Flush \/ ChunkedDone
    \/ DispatchForeignKey \/ FkAttempt \/ FkReset
    \/ DispatchEndDate \/ DispatchStartDate

SpecStaging == InitStaging /\ [][NextStaging]_vars

\* The rows staged in data stay as they are (data only grows at its end).
StagedRowsKept ==
    /\ Len(data') >= Len(data)
    /\ \A i \in DOMAIN data : data'[i] = data[i]

(* C30. Append-only staging: while generate_table applies the rules of a
   row, every row already staged in data keeps all its values and the
   output file, with the rows already flushed, is not written; a call of
   generate_end_date or generate_start_date changes, apart from the row
   under construction, only the rule module's row cache and date
   histories. *)
C30_AppendOnlyStaging ==
    /\ [][pc = "dispatch" => (StagedRowsKept /\ files' = files)]_vars
    /\ [][(pc = "dispatch" /\ ThisCol.fn \in {"generate_end_date", "generate_start_date"})
            => UNCHANGED <<fsVars, domain, _pk_cache, _pk_generator, row_num,
                           _lookup_cache, cfgVars, rows_written>>]_vars

\* In the second chunk, after a flush, a row is staged and the end date of
\* the next row has been computed and written to the row cache.
C30_Witness ==
    /\ mode = "chunked"
    /\ rows_written >= 1
    /\ Len(data) >= 1
    /\ "ENDDA" \in DOMAIN current_row
    /\ IsDate(current_row["ENDDA"])
    /\ HasStagedRow
    /\ "ENDDA" \in DOMAIN _row_generator_cache[row_num - 1]

====
